---------------------------- MODULE Spec2Model ----------------------------
(***************************************************************************)
(* dominant-colours: src/main.rs.                                          *)
(*                                                                         *)
(* main() parses the arguments, calls analyze_image() and writes the       *)
(* result.  analyze_image() loads the image, turns every pixel into an     *)
(* f64 triple, fits linfa_clustering::KMeans (k-means++ seeding, the       *)
(* m_k-means update, n_runs restarts, tolerance on the centroid shift),    *)
(* asks the fitted model to predict the cluster of every pixel, counts the *)
(* clusters, builds one ColourInfo per centroid and sorts them.            *)
(*                                                                         *)
(* Numbers.  An f64 is modelled as a fixed-point integer in units of       *)
(* 1/Scale, divisions rounding to nearest.  A percentage is kept as the    *)
(* exact fraction num/den.  Cluster indices are 0-based as in the code;    *)
(* sequences are 1-based, so cluster c is element c+1.                     *)
(***************************************************************************)
EXTENDS Integers, Sequences, FiniteSets

VARIABLES
    image,          \* the decoded, resized pixels: a sequence of u8 triples
    k,              \* args.colours
    pc,             \* position of the run in main / analyze_image / fit
    data,           \* the (N, 3) f64 array handed to the clustering
    n_run,          \* fit: index of the current restart
    n_iter,         \* fit: index of the current iteration
    centroids,      \* fit: centroids of the current restart
    memberships,    \* fit: cluster index of every sample
    inertia,        \* fit: inertia of the current restart
    min_inertia,    \* fit: least inertia over the restarts so far
    best_centroids, \* fit: Option of the centroids with the least inertia
    converged_iter, \* fit: Option of the iteration the restart converged at
    predictions,    \* analyze_image: kmeans.predict(&dataset)
    cluster_sizes,  \* analyze_image: pixels counted per cluster
    colours,        \* the ColourInfo list
    result,         \* what analyze_image returned: "none", "Ok" or the error
    out             \* what has been written so far, in order

vars == <<image, k, pc, data, n_run, n_iter, centroids, memberships, inertia,
          min_inertia, best_centroids, converged_iter, predictions,
          cluster_sizes, colours, result, out>>

fitVars == <<n_run, n_iter, centroids, memberships, inertia, min_inertia,
             best_centroids, converged_iter>>

---------------------------------------------------------------------------
(* Bounds of the model. *)

\* most pixels of a freely chosen image
MaxPixels == 3

\* largest requested number of colours
MaxColours == 4

\* restarts of the fit (the library default is 10)
NRuns == 2

\* iteration cap of one restart (main.rs configures 100)
MaxNIterations == 3

\* the colours an image may hold
Palette == {<<0, 0, 0>>, <<2, 0, 0>>, <<1, 1, 0>>}

---------------------------------------------------------------------------
(* Numbers. *)

\* fixed-point resolution standing for f64
Scale == 1000

\* 1 / tolerance of KMeans::params (1e-4)
ToleranceInv == 10000

\* F::infinity()
Infinity == -1

None == <<>>

Some(x) == <<x>>

\* a < b on floats where b may be +infinity
FloatLess(a, b) == b = Infinity \/ (a # Infinity /\ a < b)

\* n / d rounded to nearest, n >= 0, d > 0
RoundDiv(n, d) == (2 * n + d) \div (2 * d)

---------------------------------------------------------------------------
(***************************************************************************)
(* The test image of test_dominant_colour_extraction: 100 rows of 100 equal *)
(* pixels, rows 0..49 in one colour, 50..79 in a second, 80..99 in a third. *)
(* The model keeps one pixel of every RowStep-th row, which leaves the      *)
(* proportions of the three colours as they are.                            *)
(***************************************************************************)

TestRows == 100

FirstBand == 50

SecondBand == 80

RowStep == 10

TestImage(a, b, c) ==
    [i \in 1..(TestRows \div RowStep) |->
        LET y == (i - 1) * RowStep
        IN  IF y < FirstBand THEN a ELSE IF y < SecondBand THEN b ELSE c]

TestImages ==
    {TestImage(a, b, c) : <<a, b, c>> \in
        {t \in Palette \X Palette \X Palette :
            t[1] # t[2] /\ t[1] # t[3] /\ t[2] # t[3]}}

SmallImages == UNION {[1..n -> Palette] : n \in 1..MaxPixels}

Images == SmallImages \cup TestImages

---------------------------------------------------------------------------
(* analyze_image: pixels to f64. *)

ToF64(v) == v * Scale

Pixels(img) ==
    [i \in 1..Len(img) |-> <<ToF64(img[i][1]), ToF64(img[i][2]), ToF64(img[i][3])>>]

\* `x as u8` of a non-negative f64: truncation, saturating at 255
AsU8(x) == IF x \div Scale > 255 THEN 255 ELSE x \div Scale

---------------------------------------------------------------------------
(* linfa_clustering k-means, as called by analyze_image. *)

\* squared Euclidean distance of two rows (L2Dist::rdistance)
Dist2(a, b) ==
    (a[1] - b[1]) * (a[1] - b[1]) + (a[2] - b[2]) * (a[2] - b[2])
        + (a[3] - b[3]) * (a[3] - b[3])

RECURSIVE ClosestFromTieLast(_, _, _, _, _)
ClosestFromTieLast(cents, obs, j, best, bestD) ==
    IF j >= Len(cents) THEN <<best, bestD>>
    ELSE LET d == Dist2(cents[j + 1], obs)
         IN  IF d <= bestD THEN ClosestFromTieLast(cents, obs, j + 1, j, d)
             ELSE ClosestFromTieLast(cents, obs, j + 1, best, bestD)

\* the scan of closest_centroid: a centroid replaces the best so far only
\* when strictly nearer
RECURSIVE ClosestFrom(_, _, _, _, _)
ClosestFrom(cents, obs, j, best, bestD) ==
    IF j >= Len(cents) THEN <<best, bestD>>
    ELSE LET d == Dist2(cents[j + 1], obs)
         IN  IF d < bestD THEN ClosestFrom(cents, obs, j + 1, j, d)
             ELSE ClosestFrom(cents, obs, j + 1, best, bestD)

\* closest_centroid: <<index, squared distance>>
ClosestCentroid(cents, obs) == ClosestFrom(cents, obs, 0, 0, Dist2(cents[1], obs))

\* update_memberships_and_dists: <<index, squared distance>> of the nearest
\* centroid of each of the first i samples
RECURSIVE NearestOfEach(_, _, _)
NearestOfEach(cents, X, i) ==
    IF i = 0 THEN <<>>
    ELSE Append(NearestOfEach(cents, X, i - 1), ClosestCentroid(cents, X[i]))

RECURSIVE Column(_, _, _)
Column(pairs, j, i) ==
    IF i = 0 THEN <<>> ELSE Append(Column(pairs, j, i - 1), pairs[i][j])

Memberships(cents, X) == Column(NearestOfEach(cents, X, Len(X)), 1, Len(X))

MinDists(cents, X) == Column(NearestOfEach(cents, X, Len(X)), 2, Len(X))

RECURSIVE SumSeq(_, _)
SumSeq(s, i) == IF i = 0 THEN 0 ELSE s[i] + SumSeq(s, i - 1)

\* dists.sum()
Inertia(cents, X) == SumSeq(MinDists(cents, X), Len(X))

\* one component of the sum of the samples of cluster c among the first i
RECURSIVE SumComponent(_, _, _, _, _)
SumComponent(X, mem, c, j, i) ==
    IF i = 0 THEN 0
    ELSE (IF mem[i] = c THEN X[i][j] ELSE 0) + SumComponent(X, mem, c, j, i - 1)

\* component-wise sum of the samples of cluster c among the first i
SumMembers(X, mem, c, i) ==
    <<SumComponent(X, mem, c, 1, i), SumComponent(X, mem, c, 2, i),
      SumComponent(X, mem, c, 3, i)>>

CountMembers(mem, c) == Cardinality({i \in 1..Len(mem) : mem[i] = c})

\* a plain mean, an empty cluster left at the origin
ComputeCentroidsPlainMean(old, X, mem) ==
    [c1 \in 1..Len(old) |->
        LET s == SumMembers(X, mem, c1 - 1, Len(X))
            n == CountMembers(mem, c1 - 1)
        IN  IF n = 0 THEN <<0, 0, 0>>
            ELSE <<RoundDiv(s[1], n), RoundDiv(s[2], n), RoundDiv(s[3], n)>>]

\* compute_centroids (m_k-means): the old centroid counts as one more point
\* of its cluster, so counts start at one and no division is by zero
ComputeCentroids(old, X, mem) ==
    [c1 \in 1..Len(old) |->
        LET s == SumMembers(X, mem, c1 - 1, Len(X))
            n == 1 + CountMembers(mem, c1 - 1)
        IN  <<RoundDiv(s[1] + old[c1][1], n),
              RoundDiv(s[2] + old[c1][2], n),
              RoundDiv(s[3] + old[c1][3], n)>>]

\* rdistance of two centroid matrices: the squared L2 norm of the difference
RECURSIVE Shift2(_, _, _)
Shift2(old, new, i) ==
    IF i = 0 THEN 0 ELSE Dist2(old[i], new[i]) + Shift2(old, new, i - 1)

WithinCapInclusive(n) == n <= MaxNIterations

\* for n_iter in 0..max_n_iterations
WithinCap(n) == n < MaxNIterations

\* distance < tolerance
Converged(distance) == distance < (Scale * Scale) \div ToleranceInv

\* the weights taken from the distance to the newest centroid alone
RECURSIVE PlusPlusFromNewest(_, _, _)
PlusPlusFromNewest(X, n_clusters, cents) ==
    IF Len(cents) >= n_clusters THEN {cents}
    ELSE LET dists == MinDists(<<cents[Len(cents)]>>, X)
             drawn == {i \in 1..Len(X) : dists[i] > 0}
             next  == IF drawn = {} THEN {1} ELSE drawn
         IN  UNION {PlusPlusFromNewest(X, n_clusters, Append(cents, row)) :
                        row \in {X[i] : i \in next}}

\* k-means++ after the first centroid: the next one is a sample drawn with
\* weight its distance to the nearest centroid so far, and sample 0 when
\* every weight is zero
RECURSIVE PlusPlusFrom(_, _, _)
PlusPlusFrom(X, n_clusters, cents) ==
    IF Len(cents) >= n_clusters THEN {cents}
    ELSE LET dists == MinDists(cents, X)
             drawn == {i \in 1..Len(X) : dists[i] > 0}
             next  == IF drawn = {} THEN {1} ELSE drawn
         IN  UNION {PlusPlusFrom(X, n_clusters, Append(cents, row)) :
                        row \in {X[i] : i \in next}}

\* KMeansInit::KMeansPlusPlus: every centroid matrix the seeding can return
KMeansPlusPlus(X, n_clusters) ==
    UNION {PlusPlusFrom(X, n_clusters, <<row>>) : row \in {X[i] : i \in 1..Len(X)}}

ParamsAcceptAll(n_clusters) == TRUE

\* KMeansParams::check: the number of clusters must not be zero
ParamsValid(n_clusters) == n_clusters # 0

---------------------------------------------------------------------------
(* analyze_image after the fit. *)

\* the count loop started at the second prediction
ClusterSizesSkipFirst(pred, n_clusters) ==
    [c1 \in 1..n_clusters |->
        Cardinality({i \in 2..Len(pred) : pred[i] = c1 - 1})]

\* cluster_sizes: vec![0; k], one increment per prediction
ClusterSizes(pred, n_clusters) ==
    [c1 \in 1..n_clusters |->
        Cardinality({i \in 1..Len(pred) : pred[i] = c1 - 1})]

\* the percentage worked out in integers
PercentageTruncated(size, total) == [num |-> (size * 100) \div total, den |-> 1]

\* (size as f64 / total_pixels) * 100.0, exactly
Percentage(size, total) == [num |-> size * 100, den |-> total]

IsNaN(p) == p.den = 0

\* a.partial_cmp(&b) == Some(Less)
PctLess(p, q) == p.num * q.den < q.num * p.den

PctEqual(p, q) == p.num * q.den = q.num * p.den

\* the ColourInfo list in cluster order; `cluster` is the enumerate() index,
\* kept to state the order of the sorted list
BuildColours(cents, sizes, total) ==
    [c1 \in 1..Len(cents) |->
        [rgb        |-> <<AsU8(cents[c1][1]), AsU8(cents[c1][2]), AsU8(cents[c1][3])>>,
         percentage |-> Percentage(sizes[c1], total),
         cluster    |-> c1 - 1]]

\* the comparator of the sort: a goes before b when b.percentage < a.percentage
Before(a, b) == PctLess(b.percentage, a.percentage)

RECURSIVE InsertBeforeEqual(_, _)
InsertBeforeEqual(sorted, x) ==
    IF sorted = <<>> THEN <<x>>
    ELSE IF ~Before(Head(sorted), x) THEN <<x>> \o sorted
    ELSE <<Head(sorted)>> \o InsertBeforeEqual(Tail(sorted), x)

\* x goes in front of the first element it must precede
RECURSIVE InsertStable(_, _)
InsertStable(sorted, x) ==
    IF sorted = <<>> THEN <<x>>
    ELSE IF Before(x, Head(sorted)) THEN <<x>> \o sorted
    ELSE <<Head(sorted)>> \o InsertStable(Tail(sorted), x)

RECURSIVE SortUnstable(_, _)
SortUnstable(list, i) ==
    IF i = 0 THEN <<>> ELSE InsertBeforeEqual(SortUnstable(list, i - 1), list[i])

\* colours.sort_by(..): a stable sort, the first i elements of list sorted
RECURSIVE SortByPercentage(_, _)
SortByPercentage(list, i) ==
    IF i = 0 THEN <<>> ELSE InsertStable(SortByPercentage(list, i - 1), list[i])

---------------------------------------------------------------------------
(* The run. *)

Progress(n) == [i \in 1..n |-> "progress"]

Init ==
    /\ image \in Images
    /\ k \in 0..MaxColours
    /\ pc = "main"
    /\ data = <<>>
    /\ n_run = 0
    /\ n_iter = 0
    /\ centroids = <<>>
    /\ memberships = <<>>
    /\ inertia = Infinity
    /\ min_inertia = Infinity
    /\ best_centroids = None
    /\ converged_iter = None
    /\ predictions = <<>>
    /\ cluster_sizes = <<>>
    /\ colours = <<>>
    /\ result = "none"
    /\ out = <<>>

\* main calls analyze_image; image::open succeeds or fails; on success the
\* pixels are converted and the dataset is built
LoadImage ==
    /\ pc = "main"
    /\ \E opened \in BOOLEAN :
        IF opened
        THEN /\ data' = Pixels(image)
             /\ out' = out \o Progress(4)
             /\ pc' = "fit"
             /\ result' = result
        ELSE /\ data' = data
             /\ out' = out \o Progress(1)
             /\ pc' = "analyzed"
             /\ result' = "InputError"
    /\ UNCHANGED <<image, k, fitVars, predictions, cluster_sizes, colours>>

\* KMeans::params(args.colours).max_n_iterations(100).fit: the parameters
\* are checked, then memberships are allocated and the first restart begins
FitStart ==
    /\ pc = "fit"
    /\ out' = out \o Progress(1)
    /\ IF ParamsValid(k)
       THEN /\ pc' = "seed"
            /\ memberships' = [i \in 1..Len(data) |-> 0]
            /\ result' = result
       ELSE /\ pc' = "analyzed"
            /\ memberships' = memberships
            /\ result' = "InvalidParameter"
    /\ n_run' = 0
    /\ min_inertia' = Infinity
    /\ best_centroids' = None
    /\ UNCHANGED <<image, k, data, n_iter, centroids, inertia, converged_iter,
                   predictions, cluster_sizes, colours>>

\* the head of one restart: inertia = min_inertia, the seeding, no
\* convergence yet
Seed ==
    /\ pc = "seed"
    /\ inertia' = min_inertia
    /\ centroids' \in KMeansPlusPlus(data, k)
    /\ converged_iter' = None
    /\ n_iter' = 0
    /\ pc' = "iterate"
    /\ UNCHANGED <<image, k, data, n_run, memberships, min_inertia,
                   best_centroids, predictions, cluster_sizes, colours, result, out>>

\* one pass of the iteration loop
Iterate ==
    /\ pc = "iterate"
    /\ LET mem      == Memberships(centroids, data)
           new      == ComputeCentroids(centroids, data, mem)
           distance == Shift2(centroids, new, Len(new))
       IN  /\ memberships' = mem
           /\ inertia' = Inertia(centroids, data)
           /\ centroids' = new
           /\ IF Converged(distance)
              THEN /\ converged_iter' = Some(n_iter)
                   /\ n_iter' = n_iter
                   /\ pc' = "endrun"
              ELSE /\ converged_iter' = converged_iter
                   /\ n_iter' = n_iter + 1
                   /\ pc' = IF WithinCap(n_iter + 1) THEN "iterate" ELSE "endrun"
    /\ UNCHANGED <<image, k, data, n_run, min_inertia, best_centroids,
                   predictions, cluster_sizes, colours, result, out>>

\* the tail of one restart, and after the last one the result of the fit
EndRun ==
    /\ pc = "endrun"
    /\ LET better == FloatLess(inertia, min_inertia)
           best   == IF better THEN Some(centroids) ELSE best_centroids
       IN  /\ min_inertia' = IF better THEN inertia ELSE min_inertia
           /\ best_centroids' = best
           /\ n_run' = n_run + 1
           /\ IF n_run + 1 < NRuns
              THEN /\ pc' = "seed"
                   /\ result' = result
                   /\ out' = out
              ELSE IF best # None
              THEN /\ pc' = "fitted"
                   /\ result' = result
                   /\ out' = out \o Progress(1)
              ELSE /\ pc' = "analyzed"
                   /\ result' = "NumericFailure"
                   /\ out' = out
    /\ UNCHANGED <<image, k, data, n_iter, centroids, memberships, inertia,
                   converged_iter, predictions, cluster_sizes, colours>>

\* kmeans.predict(&dataset) and the count of pixels per cluster
Predict ==
    /\ pc = "fitted"
    /\ LET pred == Memberships(best_centroids[1], data)
       IN  /\ predictions' = pred
           /\ cluster_sizes' = ClusterSizes(pred, k)
    /\ pc' = "predicted"
    /\ UNCHANGED <<image, k, data, fitVars, colours, result, out>>

\* the ColourInfo list, sorted, returned as Ok
Rank ==
    /\ pc = "predicted"
    /\ LET list == BuildColours(best_centroids[1], cluster_sizes, Len(predictions))
       IN  colours' = SortByPercentage(list, Len(list))
    /\ result' = "Ok"
    /\ pc' = "analyzed"
    /\ UNCHANGED <<image, k, data, fitVars, predictions, cluster_sizes, out>>

ReturnIgnoringError == pc' = "print"

\* `?` in main: an Err leaves main at once
ReturnToMain == pc' = IF result = "Ok" THEN "print" ELSE "exit"

AnalyzeReturned ==
    /\ pc = "analyzed"
    /\ ReturnToMain
    /\ UNCHANGED <<image, k, data, fitVars, predictions, cluster_sizes,
                   colours, result, out>>

\* match args.format
PrintResults ==
    /\ pc = "print"
    /\ \E format \in {"text", "json"} :
        out' = IF format = "text"
               THEN out \o <<"header">> \o [i \in 1..Len(colours) |-> "result"]
               ELSE out \o <<"json">>
    /\ pc' = "swatch"
    /\ UNCHANGED <<image, k, data, fitVars, predictions, cluster_sizes,
                   colours, result>>

\* if args.swatch: the notice, then the file, which may fail to be created
SaveSwatch ==
    /\ pc = "swatch"
    /\ \E swatch \in BOOLEAN, created \in BOOLEAN :
        out' = IF ~swatch THEN out
               ELSE IF created THEN out \o <<"notice", "swatch">>
               ELSE out \o <<"notice">>
    /\ pc' = "exit"
    /\ UNCHANGED <<image, k, data, fitVars, predictions, cluster_sizes,
                   colours, result>>

Next ==
    \/ LoadImage
    \/ FitStart
    \/ Seed
    \/ Iterate
    \/ EndRun
    \/ Predict
    \/ Rank
    \/ AnalyzeReturned
    \/ PrintResults
    \/ SaveSwatch

Spec == Init /\ [][Next]_vars

---------------------------------------------------------------------------
(* Properties. *)

N == Len(data)

Returned == result = "Ok"

ClusterIds == 0..(k - 1)

\* C1: the returned list is non-increasing in percentage, and entries of
\* equal percentage keep the order of their cluster indices
C1_RankedStably ==
    Returned =>
        \A i, j \in 1..Len(colours) :
            i < j =>
                /\ ~PctLess(colours[i].percentage, colours[j].percentage)
                /\ PctEqual(colours[i].percentage, colours[j].percentage)
                       => colours[i].cluster < colours[j].cluster

\* a returned list the sort had to reorder and that holds a tie
C1_Witness ==
    /\ Returned
    /\ colours[1].cluster # 0
    /\ \E i \in 1..(Len(colours) - 1) :
           PctEqual(colours[i].percentage, colours[i + 1].percentage)

\* C2: every sample is predicted into one cluster of 0..k-1 and the counted
\* cluster sizes add up to the number of samples
C2_Partition ==
    pc \in {"predicted", "analyzed", "print", "swatch", "exit"} /\ predictions # <<>> =>
        /\ Len(predictions) = N
        /\ \A i \in 1..N : predictions[i] \in ClusterIds
        /\ Len(cluster_sizes) = k
        /\ SumSeq(cluster_sizes, k) = N

\* counted after a restart that ended at the iteration cap, two clusters used
C2_Witness ==
    /\ pc = "predicted"
    /\ converged_iter = None
    /\ \E i, j \in 1..N : predictions[i] # predictions[j]

RECURSIVE SumNum(_, _)
SumNum(list, i) == IF i = 0 THEN 0 ELSE list[i].percentage.num + SumNum(list, i - 1)

\* C3: the percentages of the k returned results add up to 100 (all are
\* fractions of the same total, and their numerators add up to 100 totals)
C3_PercentagesSum ==
    Returned =>
        /\ Len(colours) = k
        /\ \A i \in 1..k : colours[i].percentage.den = colours[1].percentage.den
        /\ SumNum(colours, k) = 100 * colours[1].percentage.den

\* returned percentages that are no whole numbers
C3_Witness ==
    /\ Returned
    /\ \E i \in 1..Len(colours) :
           (colours[i].percentage.num % colours[i].percentage.den) # 0

\* C4: with a loaded image, k = 0 ends the analysis with InvalidParameter
\* and no result list
C4_ZeroRejected ==
    k = 0 /\ data # <<>> /\ pc \notin {"main", "fit"} =>
        /\ result = "InvalidParameter"
        /\ colours = <<>>
        /\ pc \in {"analyzed", "exit"}

C4_Witness == k = 0 /\ data # <<>> /\ pc = "exit" /\ result = "InvalidParameter"

FitReturned == data # <<>> /\ pc \in {"fitted", "predicted", "analyzed", "print", "swatch", "exit"}

\* C5: a fit asked for more clusters than there are samples returns
\* InvalidParameter
C5_MoreClustersThanSamplesRejected ==
    FitReturned /\ k > N => result = "InvalidParameter"

Distinct(img) == Cardinality({img[i] : i \in 1..Len(img)})

Degenerate == k >= 1 /\ Distinct(image) < k

C6_State ==
    Degenerate /\ data # <<>> =>
        /\ result \in {"none", "Ok"}
        /\ \A i \in 1..Len(colours) : ~IsNaN(colours[i].percentage)
        /\ Returned =>
               /\ Len(colours) = k
               /\ \A i \in 1..k :
                      cluster_sizes[colours[i].cluster + 1] = 0
                          => colours[i].percentage.num = 0

C6_Update ==
    Degenerate /\ pc = "iterate" =>
        \A c \in ClusterIds :
            CountMembers(memberships', c) = 0 => centroids'[c + 1] = centroids[c + 1]

\* C6: with fewer distinct colours than k the run ends with k results and no
\* error, no percentage is NaN, a cluster without samples reports 0 percent,
\* and an update leaves the centroid of a cluster without samples as it was
C6_DegenerateSafe == []C6_State /\ [][C6_Update]_vars

\* a single-colour image, three colours asked for, two clusters left empty
C6_Witness ==
    /\ Returned
    /\ k = 3
    /\ Distinct(image) = 1
    /\ Cardinality({c \in ClusterIds : cluster_sizes[c + 1] = 0}) = 2

PctNear(p, target) ==
    /\ p.num - target * p.den < 5 * p.den
    /\ target * p.den - p.num < 5 * p.den

\* C7: the three-band image with k = 3 returns three results of 50, 30 and
\* 20 percent, in this order, whatever the seeding drew
C7_ThreeBands ==
    image \in TestImages /\ k = 3 /\ Returned =>
        /\ Len(colours) = 3
        /\ PctNear(colours[1].percentage, 50)
        /\ PctNear(colours[2].percentage, 30)
        /\ PctNear(colours[3].percentage, 20)

C7_Witness == image \in TestImages /\ k = 3 /\ Returned /\ pc = "exit"

\* C8: whatever is written while analyze_image has not returned Ok is a
\* progress line: no header, result line, JSON document or swatch
C8_NoOutputBeforeSuccess ==
    ~Returned => \A i \in 1..Len(out) : out[i] = "progress"

\* a failed run that has left main
C8_Witness == pc = "exit" /\ result # "Ok" /\ out # <<>>

C9_Step ==
    pc = "iterate" =>
        LET distance == Shift2(centroids, centroids', Len(centroids))
            below    == distance < (Scale * Scale) \div ToleranceInv
        IN  /\ pc' \in {"iterate", "endrun"}
            /\ pc' = "iterate" <=> (~below /\ n_iter + 1 < MaxNIterations)
            /\ converged_iter' # None <=> below

C9_State ==
    /\ n_iter <= MaxNIterations
    /\ n_run <= NRuns
    /\ pc = "iterate" => n_iter < MaxNIterations
    /\ k >= 1 /\ data # <<>> => result \in {"none", "Ok"}

C10_NearestLowestIndex ==
    pc \in {"predicted", "analyzed", "print", "swatch", "exit"} /\ predictions # <<>> =>
        \A i \in 1..N :
            \A c \in ClusterIds :
                LET dp == Dist2(best_centroids[1][predictions[i] + 1], data[i])
                    dc == Dist2(best_centroids[1][c + 1], data[i])
                IN  dp <= dc /\ (dp = dc => predictions[i] <= c)

\* predicted with a sample whose nearest centroid is that of two clusters,
\* the second of them being the nearest of another sample
C10_Witness ==
    /\ pc = "predicted"
    /\ \E i, j \in 1..N :
        \E c \in ClusterIds :
            /\ predictions[i] < c
            /\ Dist2(best_centroids[1][c + 1], data[i])
                   = Dist2(best_centroids[1][predictions[i] + 1], data[i])
            /\ predictions[j] > predictions[i]

===========================================================================
